---- MODULE Spec2Model ----
(***************************************************************************)
(* Model of nodertc: the WebRTC session (SDP offer/answer, ICE/STUN        *)
(* checks, DTLS client, SCTP server) and the endpoint's session registry.  *)
(*                                                                         *)
(* One action per handler.  JavaScript handlers run to completion, so a    *)
(* handler and every synchronous call it makes is one step; an `await`     *)
(* that waits for an I/O event (the socket bind) splits a function in two. *)
(* An exception that escapes an event-emitter callback is an uncaught      *)
(* exception: it ends the process (crashed).                               *)
(***************************************************************************)
EXTENDS Integers, Sequences, FiniteSets, TLC

\* ---------------------------------------------------------------- bounds

\* Sessions the endpoint creates in one run.
MaxSessions == 1
\* Candidates pushed in one run, over all sessions.
MaxCandidates == 2
\* createAnswer calls in one run, over all sessions.
MaxCalls == 1
\* Sessions and createAnswer calls in one run of the endpoint
\* (specification SpecEndpoint).
EndpointSessions == 2
EndpointCalls == 2
\* Candidates in one call of sdp.create (specification SpecSdp).
MaxLines == 3
\* Signalling requests in one run (specification SpecSignalling).
MaxRequests == 3
\* Incoming SCTP streams of one connection (specification SpecSctp).
MaxStreams == 2

\* ---------------------------------------------------------------- values

Null == "null"

SessionIds == 1..MaxSessions

\* createUsername() / createPassword(): the random draws of the n-th
\* session constructed (4 and 22 characters of the ICE alphabet).
createUsername(n) == <<"La", "Lb", "Lc", "Ld">>[n]

createPassword(n) == <<"LpwA", "LpwB", "LpwC", "LpwD">>[n]

\* The candidates the application can trickle: two of one priority, above
\* that of the candidate the offers carry inline.  "fe80::1" is not IPv4.
CandInputs ==
  { [ip |-> "2.2.2.2", port |-> 2000, priority |-> 100],
    [ip |-> "3.3.3.3", port |-> 3000, priority |-> 100] }

isIPv4(ip) == ip \in {"1.1.1.1", "2.2.2.2", "3.3.3.3", "10.0.0.5"}


\* ------------------------------------------------------------ SDP offers

\* sdp.parse(offer): the parsed view of each offer text the peer can send.
\* A media section without a=candidate lines has no `candidates` array
\* (hasCandidates = FALSE); an absent fingerprint is Null.
Parse(offer) ==
  CASE offer = "inline" ->
         [ media |-> << [ protocol |-> "UDP/DTLS/SCTP", iceUfrag |-> "Pa",
                          icePwd |-> "PpwA", fingerprint |-> "F1",
                          hasCandidates |-> TRUE,
                          candidates |->
                            << [ip |-> "1.1.1.1", port |-> 1000, priority |-> 50] >> ] >>,
           fingerprint |-> Null ]
    [] offer = "second" ->
         [ media |-> << [ protocol |-> "UDP/TLS/RTP/SAVPF", iceUfrag |-> "Pv",
                          icePwd |-> "PpwV", fingerprint |-> "F1",
                          hasCandidates |-> FALSE, candidates |-> << >> ],
                        [ protocol |-> "DTLS/SCTP", iceUfrag |-> "Pb",
                          icePwd |-> "PpwB", fingerprint |-> "F1",
                          hasCandidates |-> TRUE,
                          candidates |->
                            << [ip |-> "fe80::1", port |-> 1000, priority |-> 100] >> ] >>,
           fingerprint |-> "F2" ]
    [] offer = "trickle" ->
         [ media |-> << [ protocol |-> "UDP/DTLS/SCTP", iceUfrag |-> "Pc",
                          icePwd |-> "PpwC", fingerprint |-> "F1",
                          hasCandidates |-> FALSE, candidates |-> << >> ] >>,
           fingerprint |-> Null ]
    [] offer = "mixed" ->
         [ media |-> << [ protocol |-> "UDP/DTLS/SCTP", iceUfrag |-> "Pm",
                          icePwd |-> "PpwM", fingerprint |-> "F1",
                          hasCandidates |-> TRUE,
                          candidates |->
                            << [ip |-> "fe80::1", port |-> 4000, priority |-> 200],
                               [ip |-> "1.1.1.1", port |-> 1000, priority |-> 50],
                               [ip |-> "10.0.0.5", port |-> 5000, priority |-> 70] >> ] >>,
           fingerprint |-> Null ]
    [] offer = "legacy" ->
         [ media |-> << [ protocol |-> "DTLS/SCTP", iceUfrag |-> "Pd",
                          icePwd |-> "PpwD", fingerprint |-> "F1",
                          hasCandidates |-> FALSE, candidates |-> << >> ] >>,
           fingerprint |-> Null ]
    [] offer = "video" ->
         [ media |-> << [ protocol |-> "UDP/TLS/RTP/SAVPF", iceUfrag |-> "Pv",
                          icePwd |-> "PpwV", fingerprint |-> "F1",
                          hasCandidates |-> FALSE, candidates |-> << >> ] >>,
           fingerprint |-> Null ]
    [] OTHER -> [ media |-> << >>, fingerprint |-> Null ]

Offers == {"inline", "second", "video", "empty"}

\* item.protocol.includes('DTLS/SCTP')
IncludesDtlsSctp(protocol) == protocol \in {"DTLS/SCTP", "UDP/DTLS/SCTP"}

\* Mutated selection: only the first media section is looked at.
FindMediaFirst(media) ==
  IF Len(media) > 0 /\ IncludesDtlsSctp(media[1].protocol) THEN 1 ELSE 0

\* media.find(item => item.protocol.includes('DTLS/SCTP')): the index of the
\* first such section, 0 when there is none.
FindMedia(media) ==
  LET hits == { i \in 1..Len(media) : IncludesDtlsSctp(media[i].protocol) }
  IN  IF hits = {} THEN 0 ELSE CHOOSE i \in hits : \A j \in hits : i <= j

\* ------------------------------------------------------------ sdp.create

\* The candidate types sdp.create can be given; "other" is any string that
\* is none of the four the switch names.
Types == {"host", "srflx", "prflx", "relay", "other"}

\* The switch on the candidate type.
TypePreference(type) ==
  CASE type = "host" -> 126
    [] type = "srflx" -> 64
    [] type = "prflx" -> 16
    [] type = "relay" -> 8
    [] OTHER -> 0

\* type == 'host' ? 65535 : 0
LocalPreference(type) == IF type = "host" THEN 65535 ELSE 0

\* Mutated formula: the component id is not subtracted.
PriorityNoComponent(type) ==
  16777216 * TypePreference(type) + 256 * LocalPreference(type) + 256

\* 0x1000000 * typePreference + 256 * localPreference + 256 - componentId,
\* componentId 1.  A JavaScript number: exact below 2^53, never wrapped.
Priority(type) ==
  16777216 * TypePreference(type) + 256 * LocalPreference(type) + 256 - 1

\* sdp.create({..., candidates}): the a=candidate lines of the one media
\* section written, in order.  Every line but the first names the first
\* candidate as its related address.
Create(candidates) ==
  [ i \in 1..Len(candidates) |->
      [ ip |-> candidates[i].ip, port |-> candidates[i].port,
        type |-> candidates[i].type, priority |-> Priority(candidates[i].type),
        transport |-> "udp", component |-> 1, foundation |-> i - 1,
        related |-> IF i = 1 THEN << >>
                    ELSE <<candidates[1].ip, candidates[1].port>> ] ]

\* ---------------------------------------------------------- Candidates

\* The mutated comparator: ties sort the new candidate first.
FilterTiesFirst(left, right) ==
  IF left.priority <= right.priority THEN 1 ELSE -1

\* filter = (left, right) => (left.priority < right.priority ? 1 : -1)
Filter(left, right) ==
  IF left.priority < right.priority THEN 1 ELSE -1

\* sorted.add(list, value, cmp): the value is pushed at the end and moved
\* towards the front while cmp(previous, value) >= 0.  `top` is the
\* (1-based) index the value is at.
RECURSIVE SortedAddLoop(_, _, _)
SortedAddLoop(list, value, top) ==
  IF top = 1 THEN list
  ELSE IF Filter(list[top - 1], value) < 0 THEN list
  ELSE SortedAddLoop([list EXCEPT ![top] = list[top - 1], ![top - 1] = value],
                     value, top - 1)

SortedAdd(list, value) ==
  SortedAddLoop(Append(list, value), value, Len(list) + 1)

\* Candidates.push(address, port, priority)
Push(list, address, port, priority) ==
  SortedAdd(list, [address |-> address, port |-> port, priority |-> priority])

\* Candidates.primaryAddress / primaryPort: the first element's, or the
\* 'Empty list of candidates.' error.
Empty == "Empty list of candidates."

PrimaryAddress(list) == IF Len(list) = 0 THEN Empty ELSE list[1].address

PrimaryPort(list) == IF Len(list) = 0 THEN Empty ELSE list[1].port

\* -------------------------------------------------------------- Session

\* new Session(options): a fresh udp4 socket (not bound), no unicast view,
\* no STUN/DTLS/SCTP agent, random local credentials, peer credentials and
\* fingerprint null, an empty candidate set.  `pushed` is the history of
\* push calls, `checked` whether the timer has sent a Binding Request and
\* `solicited` whether the Binding Response that started DTLS answered one
\* of them; the three are observations of the run, not fields of the object.
\* `sctpSocket` is the socket of the SCTP server's `connection` event: the
\* ids of the streams it delivered, the ids createStream was called with,
\* the DataChannels made; `channel` is the `channel` events emitted;
\* `onceCandidate` is whether a once('candidate') listener is armed (only
\* the Session of the signalling facade arms one).
NewSession(n) ==
  [ socket |-> "unbound",
    usocket |-> [exists |-> FALSE, id |-> 0, remoteAddress |-> Null, remotePort |-> 0],
    stun |-> FALSE,
    onceBindingResponse |-> FALSE,
    dtls |-> Null,
    dtlsSocket |-> 0,
    sctp |-> Null,
    offer |-> Null,
    answer |-> Null,
    iceUsername |-> createUsername(n),
    icePassword |-> createPassword(n),
    peerIceUsername |-> Null,
    peerIcePassword |-> Null,
    peerFingerprint |-> Null,
    candidates |-> << >>,
    result |-> Null,
    pushed |-> << >>,
    checked |-> FALSE,
    solicited |-> FALSE,
    sctpSocket |-> [connected |-> FALSE, streamsIn |-> {}, streamsOut |-> << >>,
                    channels |-> << >>],
    channel |-> << >>,
    onceCandidate |-> FALSE ]

\* Mutated view update: an existing view keeps its old target.
UnicastKeepTarget(usocket, primaryAddress, primaryPort) ==
  IF ~usocket.exists
    THEN [exists |-> TRUE, id |-> 1,
          remoteAddress |-> primaryAddress, remotePort |-> primaryPort]
    ELSE usocket

\* Mutated view update: a new view object replaces the existing one.
UnicastReplace(usocket, primaryAddress, primaryPort) ==
  [exists |-> TRUE, id |-> usocket.id + 1,
   remoteAddress |-> primaryAddress, remotePort |-> primaryPort]

\* appendCandidate, after the push: unicast.createSocket(...) when the view
\* is null, and otherwise the same view with remoteAddress / remotePort
\* assigned.  `id` tells one view object from another.
Unicast(usocket, primaryAddress, primaryPort) ==
  IF ~usocket.exists
    THEN [exists |-> TRUE, id |-> 1,
          remoteAddress |-> primaryAddress, remotePort |-> primaryPort]
    ELSE [usocket EXCEPT !.remoteAddress = primaryAddress,
                         !.remotePort = primaryPort]

\* Session.appendCandidate(address, port, priority)
AppendCandidate(S, address, port, priority) ==
  LET list == Push(S.candidates, address, port, priority)
  IN  [S EXCEPT !.candidates = list,
                !.pushed = Append(@, [address |-> address, port |-> port,
                                      priority |-> priority]),
                !.usocket = Unicast(@, PrimaryAddress(list), PrimaryPort(list))]

\* Mutated loop: no filter, every inline candidate is appended.
RECURSIVE AppendInlineAll(_, _, _)
AppendInlineAll(S, candidates, i) ==
  IF i > Len(candidates) THEN S
  ELSE AppendInlineAll(AppendCandidate(S, candidates[i].ip, candidates[i].port,
                                       candidates[i].priority),
                       candidates, i + 1)

\* candidates.filter(c => isIPv4(c.ip)).forEach(c => appendCandidate(...)),
\* from the i-th inline candidate on.
RECURSIVE AppendInline(_, _, _)
AppendInline(S, candidates, i) ==
  IF i > Len(candidates) THEN S
  ELSE IF isIPv4(candidates[i].ip)
    THEN AppendInline(AppendCandidate(S, candidates[i].ip, candidates[i].port,
                                      candidates[i].priority),
                      candidates, i + 1)
    ELSE AppendInline(S, candidates, i + 1)

\* Mutated choice: the media section's fingerprint comes first.
PeerFingerprintMediaFirst(fgprint, mediaFingerprint) ==
  IF mediaFingerprint # Null THEN mediaFingerprint ELSE fgprint

\* (fgprint && fgprint.hash) || mediadata.fingerprint.hash, fgprint the
\* offer's session-level fingerprint.
PeerFingerprint(fgprint, mediaFingerprint) ==
  IF fgprint # Null THEN fgprint ELSE mediaFingerprint

\* Session.createAnswer(offer) up to `await this.listen()`: the session as
\* the call leaves it, with `result` "pending" when the call is suspended in
\* the bind and the error's name when it rejects.  socket.bind throws on a
\* socket that is not unbound.
CreateAnswer(S, offer) ==
  LET parsed == Parse(offer)
      media == parsed.media
      S1 == [S EXCEPT !.offer = offer]
      idx == FindMedia(media)
      mediadata == media[idx]
      S2 == [S1 EXCEPT !.peerIceUsername = mediadata.iceUfrag,
                       !.peerIcePassword = mediadata.icePwd]
      S3 == [S2 EXCEPT !.peerFingerprint =
                          PeerFingerprint(parsed.fingerprint, mediadata.fingerprint)]
      S4 == AppendInline(S3, mediadata.candidates, 1)
  IN  IF Len(media) = 0 THEN [S1 EXCEPT !.result = "Invalid SDP offer"]
      ELSE IF idx = 0 THEN [S1 EXCEPT !.result = "Datachannel not found"]
      ELSE IF parsed.fingerprint = Null /\ mediadata.fingerprint = Null
        THEN [S2 EXCEPT !.result = "TypeError"]
      ELSE IF ~mediadata.hasCandidates
        THEN [S3 EXCEPT !.result = "Session should have at least one candidate"]
      ELSE IF S4.socket # "unbound"
        THEN [S4 EXCEPT !.result = "ERR_SOCKET_ALREADY_BOUND"]
      ELSE [S4 EXCEPT !.socket = "binding", !.result = "pending"]

\* ------------------------------------------------------------------ STUN

\* A STUN message as the handlers read it.  USERNAME "a:b" is <<a, b>> and
\* << >> when the attribute is absent; MESSAGE-INTEGRITY is the key it was
\* computed with; `fingerprint` is whether FINGERPRINT is present and right.
Message(type, transactionId, username, attrs, integrity, xorMapped) ==
  [ type |-> type, transactionId |-> transactionId, username |-> username,
    attrs |-> attrs, integrity |-> integrity, fingerprint |-> TRUE,
    xorMapped |-> xorMapped ]

\* stun.validateFingerprint(req)
ValidateFingerprint(req) == req.fingerprint

\* stun.validateMessageIntegrity(req, key)
ValidateMessageIntegrity(req, key) == req.integrity = key

\* Mutated request: USERNAME in the order of an inbound request.
BindingRequestSwapped(S) ==
  Message("BindingRequest", "own", <<S.iceUsername, S.peerIceUsername>>,
          {"USE-CANDIDATE", "ICE-CONTROLLING", "PRIORITY"},
          S.peerIcePassword, << >>)

\* The timer's request: USERNAME `${peer}:${local}`, USE-CANDIDATE,
\* ICE-CONTROLLING, PRIORITY, MESSAGE-INTEGRITY under the peer's password,
\* FINGERPRINT.  Its transaction id is the session's own ("own").
BindingRequest(S) ==
  Message("BindingRequest", "own", <<S.peerIceUsername, S.iceUsername>>,
          {"USE-CANDIDATE", "ICE-CONTROLLING", "PRIORITY"},
          S.peerIcePassword, << >>)

\* The body of the setInterval callback after its guard: the primary is
\* read (the getters throw on an empty set), the request is built and sent
\* to (primaryPort, primaryAddress).
SendCheck(S) ==
  IF PrimaryAddress(S.candidates) = Empty
    THEN [throws |-> TRUE, out |-> << >>]
    ELSE [throws |-> FALSE,
          out |-> << [msg |-> BindingRequest(S),
                      port |-> PrimaryPort(S.candidates),
                      address |-> PrimaryAddress(S.candidates)] >>]

\* Mutated timer: no guard on the set's length.
TimerNoGuard(S) == SendCheck(S)

\* The setInterval callback of startSTUN: nothing when the candidate set is
\* empty, else one check.
Timer(S) ==
  IF Len(S.candidates) = 0
    THEN [throws |-> FALSE, out |-> << >>]
    ELSE SendCheck(S)

\* The three asserts of the STUN_EVENT_BINDING_REQUEST handler (reading
\* .value of an absent USERNAME attribute throws as well).
AssertsPass(S, req) ==
  /\ ValidateFingerprint(req)
  /\ ValidateMessageIntegrity(req, S.icePassword)
  /\ req.username # << >>
  /\ req.username = <<S.iceUsername, S.peerIceUsername>>

\* Mutated response: sent to the candidate set's primary.
BindingResponseToPrimary(S, req, rinfo) ==
  [ msg |-> Message("BindingResponse", req.transactionId, << >>, {},
                    S.icePassword, <<rinfo.address, rinfo.port>>),
    port |-> S.usocket.remotePort, address |-> S.usocket.remoteAddress ]

\* The response of the STUN_EVENT_BINDING_REQUEST handler and where it is
\* sent: stun.send(response, rinfo.port, rinfo.address).
BindingResponse(S, req, rinfo) ==
  [ msg |-> Message("BindingResponse", req.transactionId, << >>, {},
                    S.icePassword, <<rinfo.address, rinfo.port>>),
    port |-> rinfo.port, address |-> rinfo.address ]

\* Inbound datagrams: a transaction id and the observed source.
Datagrams ==
  { [transactionId |-> "t1", rinfo |-> [address |-> "10.0.0.5", port |-> 4000]],
    [transactionId |-> "t2", rinfo |-> [address |-> "1.1.1.1", port |-> 1000]] }

\* The Binding Requests the network can deliver to a session: a valid one
\* and one for each way to fail the handler's checks.
RequestKinds == {"valid", "fingerprint", "integrity", "username", "nousername"}

InboundRequest(S, kind, transactionId) ==
  [ Message("BindingRequest", transactionId,
            CASE kind = "username" -> <<S.peerIceUsername, S.iceUsername>>
              [] kind = "nousername" -> << >>
              [] OTHER -> <<S.iceUsername, S.peerIceUsername>>,
            {"USE-CANDIDATE", "ICE-CONTROLLING", "PRIORITY"},
            IF kind = "integrity" THEN S.peerIcePassword ELSE S.icePassword,
            << >>)
    EXCEPT !.fingerprint = (kind # "fingerprint") ]

\* ------------------------------------------------------------ DTLS, SCTP

\* fingerprint(certificate.raw, 'sha256') of the certificates a peer can
\* present.
Certificates == {"certF1", "certF2"}

Fingerprint(certificate) ==
  CASE certificate = "certF1" -> "F1"
    [] certificate = "certF2" -> "F2"
    [] OTHER -> "F0"

\* Session.startSCTP(): sctp.createServer({transport: this.dtls}) and
\* sctp.listen(5000).
StartSCTP(S) == [S EXCEPT !.sctp = "started"]

\* Session.startDTLS(): dtls.connect over the unicast view (0 for a null
\* view), then startSCTP().
StartDTLS(S) ==
  StartSCTP([S EXCEPT !.dtls = "handshake",
                      !.dtlsSocket = IF S.usocket.exists THEN S.usocket.id ELSE 0])

\* Session.startSTUN(): the STUN server over the socket, the one-second
\* timer and the Binding Request handler.
StartSTUN(S) == [S EXCEPT !.stun = TRUE]

\* Session.listen() once the bind has completed: startSTUN(), then
\* stun.once(STUN_EVENT_BINDING_RESPONSE, () => this.startDTLS()).
Listen(S) ==
  [StartSTUN([S EXCEPT !.socket = "bound"]) EXCEPT !.onceBindingResponse = TRUE]

\* The session state of the design, read off the session's fields: the
\* code keeps no state field.  Offered is "peer credentials captured",
\* Listening "STUN agent started", IceConnected "DTLS client started",
\* DtlsConnected "DTLS connect fired", SctpReady "SCTP listening fired".
State(S) ==
  IF S.sctp = "listening" THEN "SctpReady"
  ELSE IF S.dtls = "connected" THEN "DtlsConnected"
  ELSE IF S.dtls # Null THEN "IceConnected"
  ELSE IF S.stun THEN "Listening"
  ELSE IF S.peerIceUsername # Null THEN "Offered"
  ELSE "New"

Rank(state) ==
  CASE state = "New" -> 0
    [] state = "Offered" -> 1
    [] state = "Listening" -> 2
    [] state = "IceConnected" -> 3
    [] state = "DtlsConnected" -> 4
    [] state = "SctpReady" -> 5
    [] OTHER -> 6

\* ---------------------------------------------------------------- state

VARIABLES
  sessions,   \* NodeRTC[_sessions]: the registry, a list of session ids
  sess,       \* the Session objects constructed so far, by id
  crashed,    \* an uncaught exception has ended the process
  calls,      \* createAnswer calls made so far
  last,       \* the last step: the handler run ("other" for those that send
              \* nothing and are not named below), its session, the datagrams sent
  node,       \* the NodeRTC object: publicIp, internalIp, where start() is,
              \* the `session` events emitted, the armed once('close') listeners,
              \* the sessions that have emitted `close`
  options,    \* the external / internal address each Session was constructed with
  answers,    \* the a=candidate lines of each session's answer, << >> before it
  sdpArgs,    \* the candidates of the sdp.create call under study
  sdpOut,     \* the a=candidate lines that call wrote
  http        \* the signalling requests handled so far: the body's type and
              \* sdp, the session created for it (0 for none), the response
              \* sent (<< >> for none)

endpoint == <<node, options, answers>>

aux == <<sdpArgs, sdpOut, http>>

vars == <<sessions, sess, crashed, calls, last, endpoint, aux>>

Ran(op, s, out) == [op |-> op, s |-> s, out |-> out]

Other == Ran("other", 0, << >>)

\* new NodeRTC(options): no session, both addresses null.
NewNode ==
  [ publicIp |-> Null, internalIp |-> Null, start |-> "idle",
    emitted |-> 0, closeListeners |-> {}, closed |-> {} ]

Init ==
  /\ sessions = << >>
  /\ sess = << >>
  /\ crashed = FALSE
  /\ calls = 0
  /\ last = Other
  /\ node = NewNode
  /\ options = << >>
  /\ answers = << >>
  /\ sdpArgs = << >>
  /\ sdpOut = << >>
  /\ http = << >>

Created == 1..Len(sess)

\* The candidates pushed so far by the first n sessions.
RECURSIVE Pushed(_)
Pushed(n) == IF n = 0 THEN 0 ELSE Len(sess[n].pushed) + Pushed(n - 1)

\* NodeRTC.createSession(): the session is constructed with the addresses
\* the endpoint holds now, pushed on the registry, given its once('close')
\* listener, and `session` is emitted.
CreateSessionStep ==
  /\ ~crashed
  /\ sess' = Append(sess, NewSession(Len(sess) + 1))
  /\ options' = Append(options, [external |-> node.publicIp,
                                  internal |-> node.internalIp])
  /\ answers' = Append(answers, << >>)
  /\ sessions' = Append(sessions, Len(sess) + 1)
  /\ node' = [node EXCEPT !.emitted = @ + 1,
                           !.closeListeners = @ \cup {Len(sess) + 1}]
  /\ last' = Other
  /\ UNCHANGED <<crashed, calls, aux>>

CreateSession ==
  /\ Len(sess) < MaxSessions
  /\ CreateSessionStep

\* session.createAnswer(offer), to its first suspension or its rejection.
CreateAnswerStep(s, offer) ==
  /\ ~crashed
  /\ s \in Created
  /\ sess' = [sess EXCEPT ![s] = CreateAnswer(sess[s], offer)]
  /\ calls' = calls + 1
  /\ last' = Other
  /\ UNCHANGED <<sessions, crashed, endpoint, aux>>

CreateAnswerCall(s, offer) ==
  /\ calls < MaxCalls
  /\ s \in Created
  /\ Pushed(Len(sess)) - Len(sess[s].pushed)
       + Len(CreateAnswer(sess[s], offer).pushed) <= MaxCandidates
  /\ CreateAnswerStep(s, offer)

\* this.port: the port the operating system bound the n-th session's
\* socket to.
Port(n) == 50000 + n

\* The sdp.create call of createAnswer: a host candidate at the internal
\* address and a srflx candidate at the public address the session was
\* constructed with, both at the socket's port.
Answer(n) ==
  Create(<< [ip |-> options[n].internal, port |-> Port(n), type |-> "host"],
            [ip |-> options[n].external, port |-> Port(n), type |-> "srflx"] >>)

\* handleOffer after `await session.createAnswer(offer)`:
\* res.json({ sdp: answer, type: 'answer' }) on the requests that await the
\* session's answer.
Respond(requests, s, answer) ==
  [ r \in 1..Len(requests) |->
      IF requests[r].session = s /\ requests[r].response = << >>
        THEN [requests[r] EXCEPT !.response = << [sdp |-> answer, type |-> "answer"] >>]
        ELSE requests[r] ]

\* The bind callback and the continuations it resumes in the same turn:
\* listen() starts STUN and arms the once-listener for the first Binding
\* Response, createAnswer() builds the answer and resolves, and a
\* signalling handler awaiting it sends its response.
BindComplete(s) ==
  /\ ~crashed
  /\ s \in Created
  /\ sess[s].socket = "binding"
  /\ sess' = [sess EXCEPT ![s] =
                [Listen(@) EXCEPT !.answer = "answer", !.result = "answer"]]
  /\ answers' = [answers EXCEPT ![s] = Answer(s)]
  /\ http' = Respond(http, s, "answer")
  /\ last' = Other
  /\ UNCHANGED <<sessions, crashed, calls, node, options, sdpArgs, sdpOut>>

\* session.appendCandidate(address, port, priority), a trickled candidate.
AppendCandidateCall(s, c) ==
  /\ ~crashed
  /\ s \in Created
  /\ Pushed(Len(sess)) < MaxCandidates
  /\ sess' = [sess EXCEPT ![s] = AppendCandidate(@, c.ip, c.port, c.priority)]
  /\ last' = Ran("appendCandidate", s, << >>)
  /\ UNCHANGED <<sessions, crashed, calls, endpoint, aux>>

\* One tick of the session's one-second timer.
Tick(s) ==
  /\ ~crashed
  /\ s \in Created
  /\ sess[s].stun
  /\ LET r == Timer(sess[s])
     IN  /\ crashed' = r.throws
         /\ sess' = [sess EXCEPT ![s].checked = @ \/ (r.out # << >>)]
         /\ last' = Ran("tick", s, r.out)
  /\ UNCHANGED <<sessions, calls, endpoint, aux>>

\* A Binding Request arrives on the session's socket: the handler's asserts
\* throw out of the socket's message event, or the response is sent.
ReceiveBindingRequest(s, kind, transactionId, rinfo) ==
  /\ ~crashed
  /\ s \in Created
  /\ sess[s].stun
  /\ LET req == InboundRequest(sess[s], kind, transactionId)
     IN  IF AssertsPass(sess[s], req)
           THEN /\ last' = Ran("bindingRequest", s,
                               << BindingResponse(sess[s], req, rinfo) >>)
                /\ crashed' = FALSE
           ELSE /\ last' = Ran("bindingRequest", s, << >>)
                /\ crashed' = TRUE
  /\ UNCHANGED <<sessions, sess, calls, endpoint, aux>>

\* A Binding Response arrives on the session's socket, answering one of the
\* session's own requests (transactionId "own", possible once one was sent)
\* or not.  The first one runs startDTLS(); dtls.connect with a null socket
\* either throws or returns an agent that has no transport.
ReceiveBindingResponse(s, transactionId) ==
  /\ ~crashed
  /\ s \in Created
  /\ sess[s].stun
  /\ transactionId = "own" => sess[s].checked
  /\ last' = Other
  /\ IF sess[s].onceBindingResponse
       THEN \E throws \in (IF sess[s].usocket.exists THEN {FALSE} ELSE BOOLEAN) :
              /\ crashed' = throws
              /\ sess' = [sess EXCEPT ![s] =
                            IF throws THEN [@ EXCEPT !.onceBindingResponse = FALSE]
                            ELSE [StartDTLS(@) EXCEPT !.onceBindingResponse = FALSE,
                                                      !.solicited = (transactionId = "own")]]
       ELSE UNCHANGED <<sess, crashed>>
  /\ UNCHANGED <<sessions, calls, endpoint, aux>>

\* The DTLS handshake ends: checkServerIdentity compares the presented
\* certificate's fingerprint with the peer fingerprint; `connect` fires or
\* `error` does.
DtlsHandshake(s, certificate) ==
  /\ ~crashed
  /\ s \in Created
  /\ sess[s].dtls = "handshake"
  /\ sess[s].dtlsSocket # 0
  /\ sess' = [sess EXCEPT ![s].dtls =
                IF Fingerprint(certificate) = sess[s].peerFingerprint
                  THEN "connected" ELSE "failed"]
  /\ last' = Other
  /\ UNCHANGED <<sessions, crashed, calls, endpoint, aux>>

\* The SCTP server's `listening` event.
SctpListening(s) ==
  /\ ~crashed
  /\ s \in Created
  /\ sess[s].sctp = "started"
  /\ sess' = [sess EXCEPT ![s].sctp = "listening"]
  /\ last' = Other
  /\ UNCHANGED <<sessions, crashed, calls, endpoint, aux>>

Next ==
  \/ CreateSession
  \/ \E s \in SessionIds, offer \in Offers : CreateAnswerCall(s, offer)
  \/ \E s \in SessionIds : BindComplete(s)
  \/ \E s \in SessionIds, c \in CandInputs : AppendCandidateCall(s, c)
  \/ \E s \in SessionIds : Tick(s)
  \/ \E s \in SessionIds, kind \in RequestKinds, d \in Datagrams :
       ReceiveBindingRequest(s, kind, d.transactionId, d.rinfo)
  \/ \E s \in SessionIds, transactionId \in {"own", "forged"} :
       ReceiveBindingResponse(s, transactionId)
  \/ \E s \in SessionIds, certificate \in Certificates : DtlsHandshake(s, certificate)
  \/ \E s \in SessionIds : SctpListening(s)

Spec == Init /\ [][Next]_vars

\* --------------------------------------------------------------- claims

\* C1: every step of every session keeps its state or moves it to the next
\* state of New, Offered, Listening, IceConnected, DtlsConnected, SctpReady:
\* none is skipped, none re-entered, none goes backwards.
C1_StateOrder ==
  [][\A s \in Created :
       Rank(State(sess'[s])) \in {Rank(State(sess[s])), Rank(State(sess[s])) + 1}]_vars

\* C2: the SCTP server exists (created and told to listen) only in sessions
\* whose DTLS socket has fired `connect`.
C2_SctpAfterDtlsConnect ==
  \A s \in Created : sess[s].sctp # Null => sess[s].dtls = "connected"

\* C3: a session's DTLS client has been started only if a Binding Response
\* to one of the session's own checks was what started it.
C3_DtlsOnSolicitedResponse ==
  \A s \in Created : sess[s].dtls # Null => sess[s].solicited

\* C4: whenever a session's unicast view exists, its remote target is the
\* candidate set's primary.
C4_ViewIsPrimary ==
  \A s \in Created :
    sess[s].usocket.exists =>
      /\ Len(sess[s].candidates) > 0
      /\ sess[s].usocket.remoteAddress = PrimaryAddress(sess[s].candidates)
      /\ sess[s].usocket.remotePort = PrimaryPort(sess[s].candidates)

\* C4 witness: a view that was retargeted by a second, higher candidate.
C4_Witness ==
  \E s \in Created :
    /\ sess[s].usocket.exists
    /\ Len(sess[s].pushed) = 2
    /\ sess[s].pushed[2].priority > sess[s].pushed[1].priority
    /\ sess[s].usocket.remoteAddress = sess[s].pushed[2].address

\* The orders of n pushes: the bijections of 1..n.
Orders(n) ==
  { f \in [1..n -> 1..n] : \A i, j \in 1..n : f[i] = f[j] => i = j }

\* `list` is `pushed` sorted by non-increasing priority, equal priorities in
\* the order pushed.
StableByPriority(list, pushed) ==
  /\ Len(list) = Len(pushed)
  /\ \E f \in Orders(Len(pushed)) :
       /\ \A i \in 1..Len(list) : list[i] = pushed[f[i]]
       /\ \A i, j \in 1..Len(list) :
            i < j => \/ list[i].priority > list[j].priority
                     \/ list[i].priority = list[j].priority /\ f[i] < f[j]

\* C5: the list holds exactly the pushed elements, by non-increasing
\* priority and, within a priority, in insertion order; the primary is the
\* first pushed of the elements of maximal priority.
C5_SortedStable ==
  \A s \in Created :
    /\ StableByPriority(sess[s].candidates, sess[s].pushed)
    /\ \A k \in 1..Len(sess[s].pushed) :
         ( /\ \A i \in 1..Len(sess[s].pushed) :
                sess[s].pushed[i].priority <= sess[s].pushed[k].priority
           /\ \A i \in 1..(k - 1) :
                sess[s].pushed[i].priority < sess[s].pushed[k].priority )
         => /\ PrimaryAddress(sess[s].candidates) = sess[s].pushed[k].address
            /\ PrimaryPort(sess[s].candidates) = sess[s].pushed[k].port

\* C5 witness: two different candidates of equal priority were pushed.
C5_Witness ==
  \E s \in Created :
    /\ Len(sess[s].pushed) = 2
    /\ sess[s].pushed[1].priority = sess[s].pushed[2].priority
    /\ sess[s].pushed[1].address # sess[s].pushed[2].address
    /\ sess[s].candidates[1].address = sess[s].pushed[1].address

\* C6: a step that pushes one candidate of strictly greater priority than
\* all in the set leaves the view targeting it; a view that existed is the
\* same object, and a DTLS agent that ran over it still does.
C6_Redirect ==
  [][\A s \in Created :
       ( /\ Len(sess'[s].pushed) = Len(sess[s].pushed) + 1
         /\ \A i \in 1..Len(sess[s].pushed) :
              sess[s].pushed[i].priority
                < sess'[s].pushed[Len(sess'[s].pushed)].priority )
       => LET c == sess'[s].pushed[Len(sess'[s].pushed)]
          IN  /\ sess'[s].usocket.exists
              /\ sess'[s].usocket.remoteAddress = c.address
              /\ sess'[s].usocket.remotePort = c.port
              /\ sess[s].usocket.exists =>
                   sess'[s].usocket.id = sess[s].usocket.id
              /\ (sess[s].dtls # Null /\ sess[s].dtlsSocket # 0) =>
                   /\ sess'[s].dtls = sess[s].dtls
                   /\ sess'[s].dtlsSocket = sess'[s].usocket.id]_vars

\* C6 witness: appendCandidate has just retargeted the view a DTLS agent
\* runs over to a second, higher candidate.
C6_Witness ==
  /\ last.op = "appendCandidate"
  /\ LET S == sess[last.s]
     IN  /\ S.dtls # Null
         /\ S.dtlsSocket = S.usocket.id
         /\ Len(S.pushed) = 2
         /\ S.pushed[2].priority > S.pushed[1].priority
         /\ S.usocket.remoteAddress = S.pushed[2].address
         /\ S.usocket.remotePort = S.pushed[2].port

\* C7: a Binding Request with a valid FINGERPRINT, a valid
\* MESSAGE-INTEGRITY under the local password and USERNAME local:peer
\* passes the handler's checks in every state of a listening session, and
\* what the handler sends for it is a Binding Response with the request's
\* transaction id, XOR-MAPPED-ADDRESS the observed source and
\* MESSAGE-INTEGRITY under the local password, to the observed source; a
\* handler step that did not throw sent exactly that one datagram.
C7_Response ==
  /\ \A s \in Created, kind \in RequestKinds, d \in Datagrams :
       LET req == InboundRequest(sess[s], kind, d.transactionId)
           out == BindingResponse(sess[s], req, d.rinfo)
       IN  ( /\ sess[s].stun
             /\ req.fingerprint
             /\ req.integrity = sess[s].icePassword
             /\ req.username = <<sess[s].iceUsername, sess[s].peerIceUsername>> )
           => /\ AssertsPass(sess[s], req)
              /\ out.msg.type = "BindingResponse"
              /\ out.msg.transactionId = d.transactionId
              /\ out.msg.xorMapped = <<d.rinfo.address, d.rinfo.port>>
              /\ out.msg.integrity = sess[s].icePassword
              /\ out.address = d.rinfo.address
              /\ out.port = d.rinfo.port
  /\ (last.op = "bindingRequest" /\ ~crashed) =>
       /\ Len(last.out) = 1
       /\ \E d \in Datagrams :
            /\ last.out[1].msg.type = "BindingResponse"
            /\ last.out[1].msg.transactionId = d.transactionId
            /\ last.out[1].msg.xorMapped = <<d.rinfo.address, d.rinfo.port>>
            /\ last.out[1].msg.integrity = sess[last.s].icePassword
            /\ last.out[1].address = d.rinfo.address
            /\ last.out[1].port = d.rinfo.port

\* C7 witness: a response has been sent to a source that is not the
\* primary of the session's non-empty candidate set.
C7_Witness ==
  /\ last.op = "bindingRequest"
  /\ Len(last.out) = 1
  /\ sess[last.s].usocket.exists
  /\ last.out[1].address # PrimaryAddress(sess[last.s].candidates)
  /\ last.out[1].msg.xorMapped = <<"10.0.0.5", 4000>>

\* C8: the handler of a Binding Request that fails validation sends
\* nothing, changes no session and leaves the process handling events.
C8_SilentDrop ==
  [][\A s \in Created, kind \in RequestKinds \ {"valid"}, d \in Datagrams :
       ReceiveBindingRequest(s, kind, d.transactionId, d.rinfo)
         => /\ last'.out = << >>
            /\ sess' = sess
            /\ ~crashed']_vars

\* C9: a tick raises no error; it sends nothing when the candidate set is
\* empty and otherwise exactly one Binding Request, to the primary.
C9_Tick ==
  last.op = "tick" =>
    /\ ~crashed
    /\ IF Len(sess[last.s].candidates) = 0
         THEN last.out = << >>
         ELSE /\ Len(last.out) = 1
              /\ last.out[1].msg.type = "BindingRequest"
              /\ last.out[1].address = sess[last.s].candidates[1].address
              /\ last.out[1].port = sess[last.s].candidates[1].port

\* C9 witness: a tick has sent its request to a primary that was pushed
\* second.
C9_Witness ==
  /\ last.op = "tick"
  /\ Len(last.out) = 1
  /\ Len(sess[last.s].pushed) = 2
  /\ last.out[1].address = sess[last.s].pushed[2].address
  /\ last.out[1].address # sess[last.s].pushed[1].address

\* The DTLS/SCTP media sections createAnswer can select from the offers.
DataSections ==
  { Parse(offer).media[FindMedia(Parse(offer).media)] :
      offer \in { o \in Offers : FindMedia(Parse(o).media) # 0 } }

\* C10: every Binding Request sent carries USERNAME peer:local, with the
\* ufrag of the DTLS/SCTP section of an offer the session was given and the
\* session's own ufrag, carries USE-CANDIDATE and ICE-CONTROLLING, and its
\* MESSAGE-INTEGRITY validates under that section's password.
C10_Request ==
  \A i \in 1..Len(last.out) :
    last.out[i].msg.type = "BindingRequest" =>
      LET S == sess[last.s]
          m == last.out[i].msg
      IN  /\ S.iceUsername = createUsername(last.s)
          /\ {"USE-CANDIDATE", "ICE-CONTROLLING"} \subseteq m.attrs
          /\ \E section \in DataSections :
               /\ S.peerIceUsername = section.iceUfrag
               /\ m.username = <<section.iceUfrag, S.iceUsername>>
               /\ ValidateMessageIntegrity(m, section.icePwd)

\* C10 witness: a request sent by a session whose peer credentials came
\* from the second media section of its offer.
C10_Witness ==
  /\ last.op = "tick"
  /\ Len(last.out) = 1
  /\ last.out[1].msg.username = <<"Pb", sess[last.s].iceUsername>>
  /\ last.out[1].msg.integrity = "PpwB"

\* The session is in the endpoint's registry.
Registered(s) == \E i \in 1..Len(sessions) : sessions[i] = s

\* C11: a session whose peer presented a certificate of another fingerprint
\* (the DTLS connect failed) has no SCTP agent: it stays IceConnected.
C11_MismatchStaysIceConnected ==
  \A s \in Created :
    sess[s].dtls = "failed" =>
      /\ sess[s].sctp = Null
      /\ State(sess[s]) = "IceConnected"

\* C18: a session whose DTLS handshake ended in an error has released its
\* UDP socket and is no longer in the endpoint's registry.
C18_FatalErrorCloses ==
  \A s \in Created :
    sess[s].dtls = "failed" =>
      /\ sess[s].socket = "closed"
      /\ ~Registered(s)

\* The rejections of createAnswer that are the design's InvalidOffer.
InvalidOffer == {"Invalid SDP offer", "Datachannel not found"}

Externals == {"203.0.113.7"}

Internals == {"192.168.0.2"}

\* The offers given to the endpoint's sessions: with an inline candidate,
\* with none, without a DTLS/SCTP section.
EndpointOffers == {"inline", "trickle", "video"}

\* NodeRTC.start() up to its await: both probes are under way.
StartCall ==
  /\ ~crashed
  /\ node.start = "idle"
  /\ node' = [node EXCEPT !.start = "pending"]
  /\ last' = Other
  /\ UNCHANGED <<sessions, sess, crashed, calls, options, answers, aux>>

\* Both probes have resolved: start() stores the addresses and emits `ready`.
StartResolve(external, internal) ==
  /\ ~crashed
  /\ node.start = "pending"
  /\ node' = [node EXCEPT !.start = "done", !.publicIp = external,
                           !.internalIp = internal]
  /\ last' = Other
  /\ UNCHANGED <<sessions, sess, crashed, calls, options, answers, aux>>

EndpointCreateSession ==
  /\ Len(sess) < EndpointSessions
  /\ CreateSessionStep

EndpointCreateAnswer(s, offer) ==
  /\ calls < EndpointCalls
  /\ CreateAnswerStep(s, offer)

\* this[_sessions].indexOf(session): 1-based, 0 for "not found".
IndexOf(list, x) ==
  LET hits == { i \in 1..Len(list) : list[i] = x }
  IN  IF hits = {} THEN 0 ELSE CHOOSE i \in hits : \A j \in hits : i <= j

\* Mutated removal: splice(i) without a count drops the rest of the list.
SpliceRest(list, i) == SubSeq(list, 1, i - 1)

\* this[_sessions].splice(i, 1)
Splice(list, i) == SubSeq(list, 1, i - 1) \o SubSeq(list, i + 1, Len(list))

\* The session emits `close`: the endpoint's once-listener, when it is
\* still armed, is removed and takes the session off the registry if it
\* is on it.  `closed` records that the event happened.
Close(s) ==
  /\ ~crashed
  /\ s \in Created
  /\ LET i == IndexOf(sessions, s)
     IN  sessions' = IF s \in node.closeListeners /\ i > 0
                       THEN Splice(sessions, i) ELSE sessions
  /\ node' = [node EXCEPT !.closeListeners = @ \ {s}, !.closed = @ \cup {s}]
  /\ last' = Other
  /\ UNCHANGED <<sess, crashed, calls, options, answers, aux>>

NextEndpoint ==
  \/ StartCall
  \/ \E external \in Externals, internal \in Internals :
       StartResolve(external, internal)
  \/ EndpointCreateSession
  \/ \E s \in 1..EndpointSessions, offer \in EndpointOffers :
       EndpointCreateAnswer(s, offer)
  \/ \E s \in 1..EndpointSessions : BindComplete(s)
  \/ \E s \in 1..EndpointSessions : Close(s)
  \/ \E s \in 1..EndpointSessions, kind \in RequestKinds, d \in Datagrams :
       ReceiveBindingRequest(s, kind, d.transactionId, d.rinfo)

SpecEndpoint == Init /\ [][NextEndpoint]_vars

\* ---------------------------------------------------- sdp.create alone

\* The candidate lists of at most `n` candidates, over every type.
RECURSIVE CandidateLists(_)
CandidateLists(n) ==
  IF n = 0 THEN { << >> }
  ELSE LET shorter == CandidateLists(n - 1)
       IN  shorter \cup
           { Append(l, [ip |-> "192.168.0.2", port |-> 50001, type |-> type]) :
               l \in { x \in shorter : Len(x) = n - 1 }, type \in Types }

InitSdp ==
  /\ sessions = << >>
  /\ sess = << >>
  /\ crashed = FALSE
  /\ calls = 0
  /\ last = Other
  /\ node = NewNode
  /\ options = << >>
  /\ answers = << >>
  /\ sdpArgs \in CandidateLists(MaxLines) \ { << >> }
  /\ sdpOut = << >>
  /\ http = << >>

\* sdp.create({candidates: sdpArgs, ...})
SdpCreate ==
  /\ sdpOut = << >>
  /\ sdpOut' = Create(sdpArgs)
  /\ UNCHANGED <<sessions, sess, crashed, calls, last, endpoint, sdpArgs, http>>

NextSdp == SdpCreate

SpecSdp == InitSdp /\ [][NextSdp]_vars

\* ------------------------------------------------------ endpoint claims

\* C13: createAnswer on an offer whose DTLS/SCTP section has credentials
\* and a fingerprint but no inline candidate does not reject: the call is
\* binding the socket, or has returned an answer with the session
\* listening on an empty candidate set.
C13_NoInlineCandidates ==
  \A s \in Created :
    sess[s].offer = "trickle" =>
      \/ sess[s].result = "pending" /\ sess[s].socket = "binding"
      \/ /\ sess[s].result = "answer"
         /\ sess[s].socket = "bound"
         /\ sess[s].stun
         /\ Len(answers[s]) > 0

\* request.addAttribute(STUN_ATTR_PRIORITY, 2113937151)
StunPriority == 2113937151

\* C14: every answer has exactly two candidate lines, the host one of
\* priority 2113937151, which is the PRIORITY of the session's Binding
\* Requests, and the srflx one of priority 1677729535.
C14_AnswerPriorities ==
  \A s \in Created :
    answers[s] # << >> =>
      /\ Len(answers[s]) = 2
      /\ answers[s][1].type = "host"
      /\ answers[s][1].priority = 2113937151
      /\ answers[s][1].priority = StunPriority
      /\ answers[s][2].type = "srflx"
      /\ answers[s][2].priority = 1677729535

\* C15: every line sdp.create wrote for a host, srflx, prflx or relay
\* candidate has priority 2^24 * typePref + 256 * localPref + 255, typePref
\* 126, 64, 16, 8 in that order, localPref 65535 for host and 0 otherwise;
\* no line's priority exceeds 2^32 - 1 (half of it does not exceed 2^31 - 1).
C15_PriorityFormula ==
  \A i \in 1..Len(sdpOut) :
    LET line == sdpOut[i]
        typePref == [host |-> 126, srflx |-> 64, prflx |-> 16, relay |-> 8]
        localPref == [host |-> 65535, srflx |-> 0, prflx |-> 0, relay |-> 0]
    IN  /\ line.type = sdpArgs[i].type
        /\ line.type \in DOMAIN typePref =>
             line.priority = (2 ^ 24) * typePref[line.type]
                               + 256 * localPref[line.type] + (256 - 1)
        /\ line.priority >= 0
        /\ line.priority \div 2 <= 2147483647

\* C15 witness: sdp.create has written a relay, a host and a prflx line.
C15_Witness ==
  /\ Len(sdpOut) = 3
  /\ sdpOut[1].type = "relay" /\ sdpOut[1].priority = 134217983
  /\ sdpOut[2].type = "host" /\ sdpOut[2].priority = 2130706431
  /\ sdpOut[3].type = "prflx" /\ sdpOut[3].priority = 268435711

\* C16: every answer advertises exactly two candidates, a host one at the
\* internal address start() discovers and a srflx one at the public address
\* it discovers, both at the port the session's socket is bound to.
C16_AnswerCandidates ==
  \A s \in Created :
    answers[s] # << >> =>
      /\ Len(answers[s]) = 2
      /\ answers[s][1].type = "host"
      /\ answers[s][1].ip \in Internals
      /\ answers[s][2].type = "srflx"
      /\ answers[s][2].ip \in Externals
      /\ sess[s].socket = "bound"
      /\ answers[s][1].port = Port(s)
      /\ answers[s][2].port = Port(s)

\* NodeRTC.size
Size == Len(sessions)

\* The session has not emitted `close`.
NotClosed(s) == s \notin node.closed

\* C17: the registry is exactly the sessions created and not yet closed, in
\* the order created, so `size` is their number; one `session` event has
\* been emitted per session created.
C17_Registry ==
  /\ sessions = SelectSeq([s \in 1..Len(sess) |-> s], NotClosed)
  /\ Size = Cardinality({ s \in Created : NotClosed(s) })
  /\ node.emitted = Len(sess)

\* C17 witness: of two sessions created the first has closed and the
\* second is the one registered.
C17_Witness ==
  /\ Len(sess) = 2
  /\ node.closed = {1}
  /\ sessions = <<2>>
  /\ Size = 1

\* C19: a step that handles an offer or a Binding Request for one session
\* leaves every other session as it was (fields, candidate set, unicast
\* view, agents, answer) and still having its events handled.
C19_Isolation ==
  [][\A s \in Created :
       ( \/ \E offer \in EndpointOffers : EndpointCreateAnswer(s, offer)
         \/ \E kind \in RequestKinds, d \in Datagrams :
              ReceiveBindingRequest(s, kind, d.transactionId, d.rinfo) )
       => \A t \in Created \ {s} :
            /\ sess'[t] = sess[t]
            /\ answers'[t] = answers[t]
            /\ ~crashed']_vars

\* ----------------------------------------------------------- signalling

\* The bodies of the `offer` requests: the type ("null" when the field is
\* missing) and the SDP.
Bodies ==
  { [type |-> type, sdp |-> offer] :
      type \in {"offer", "answer", Null}, offer \in EndpointOffers }

\* Mutated check: any type passes.
TypeAny(type) == TRUE

\* assert.strictEqual(type, 'offer', 'Expected an SDP offer')
TypeIsOffer(type) == type = "offer"

\* handleOffer(nodertc, req, res) up to its await.  A body of another
\* type throws in the assert; otherwise the session is created and
\* createAnswer runs to its own await or to its rejection.  A throw or a
\* rejection leaves the handler's promise rejected with nobody handling
\* it: the runtime ends the process or only warns, and no response is
\* sent.
HandleOffer(body) ==
  /\ ~crashed
  /\ Len(http) < MaxRequests
  /\ IF ~TypeIsOffer(body.type)
       THEN /\ http' = Append(http, [type |-> body.type, sdp |-> body.sdp,
                                      session |-> 0, response |-> << >>])
            /\ crashed' \in BOOLEAN
            /\ UNCHANGED <<sessions, sess, calls, endpoint>>
       ELSE LET n == Len(sess) + 1
                S == CreateAnswer(NewSession(n), body.sdp)
            IN  /\ sess' = Append(sess, S)
                /\ options' = Append(options, [external |-> node.publicIp,
                                                internal |-> node.internalIp])
                /\ answers' = Append(answers, << >>)
                /\ sessions' = Append(sessions, n)
                /\ node' = [node EXCEPT !.emitted = @ + 1,
                                         !.closeListeners = @ \cup {n}]
                /\ calls' = calls + 1
                /\ http' = Append(http, [type |-> body.type, sdp |-> body.sdp,
                                          session |-> n, response |-> << >>])
                /\ IF S.result = "pending"
                     THEN crashed' = FALSE
                     ELSE crashed' \in BOOLEAN
  /\ last' = Other
  /\ UNCHANGED <<sdpArgs, sdpOut>>

NextSignalling ==
  \/ \E body \in Bodies : HandleOffer(body)
  \/ \E s \in 1..MaxRequests : BindComplete(s)

SpecSignalling == Init /\ [][NextSignalling]_vars

\* C20: a request whose type is not "offer" created no session, and the
\* sessions are exactly those of the "offer" requests, one each; a
\* response has been sent only to an "offer" request whose session has
\* its socket bound, its STUN agent started and its answer built, and it
\* is {sdp: that answer, type: "answer"}.
C20_Offer ==
  /\ \A r \in 1..Len(http) :
       /\ http[r].type # "offer" => http[r].session = 0
       /\ http[r].type = "offer" => http[r].session \in Created
       /\ \A q \in 1..Len(http) :
            (q # r /\ http[r].session # 0) => http[q].session # http[r].session
       /\ http[r].response # << >> =>
            /\ http[r].type = "offer"
            /\ sess[http[r].session].socket = "bound"
            /\ sess[http[r].session].stun
            /\ sess[http[r].session].answer # Null
            /\ http[r].response =
                 << [sdp |-> sess[http[r].session].answer, type |-> "answer"] >>
  /\ Size = Cardinality({ r \in 1..Len(http) : http[r].type = "offer" })
  /\ Len(sess) = Size

\* C20 witness: a request of another type was turned down, and an "offer"
\* request has been answered.
C20_Witness ==
  /\ Size = 1
  /\ \E r \in 1..Len(http) : http[r].type = "answer" /\ http[r].session = 0
  /\ \E r \in 1..Len(http) :
       /\ http[r].type = "offer"
       /\ http[r].response # << >>
       /\ sess[http[r].session].stun

\* ------------------------------------------------- more session claims

\* The states from Listening on.
FromListening == {"Listening", "IceConnected", "DtlsConnected", "SctpReady"}

\* C23: a session that is Listening or later has a non-empty candidate
\* set.
C23_CandidatesNonEmpty ==
  \A s \in Created :
    State(sess[s]) \in FromListening => Len(sess[s].candidates) > 0

\* C26: a step takes a session from "no DTLS client" to "DTLS client
\* started" only on a Binding Response that answers a request the session
\* sent.
C26_ValidatedTransition ==
  [][\A s \in Created :
       (sess[s].dtls = Null /\ sess'[s].dtls # Null) => sess'[s].solicited]_vars

\* C30: a session whose DTLS client has been started has a unicast view,
\* the client runs over it, and it targets the candidate set's primary.
C30_DtlsOverView ==
  \A s \in Created :
    sess[s].dtls # Null =>
      /\ sess[s].usocket.exists
      /\ sess[s].dtlsSocket = sess[s].usocket.id
      /\ Len(sess[s].candidates) > 0
      /\ sess[s].usocket.remoteAddress = PrimaryAddress(sess[s].candidates)

LifetimeOffers == {"inline", "mixed", "second"}

LifetimeCreateAnswer(s, offer) ==
  /\ calls < EndpointCalls
  /\ CreateAnswerStep(s, offer)

\* createSession, createAnswer (repeated calls included), the bind, the
\* timer, the `close` event and inbound Binding Requests.
NextLifetime ==
  \/ CreateSession
  \/ \E s \in SessionIds, offer \in LifetimeOffers : LifetimeCreateAnswer(s, offer)
  \/ \E s \in SessionIds : BindComplete(s)
  \/ \E s \in SessionIds : Tick(s)
  \/ \E s \in SessionIds : Close(s)
  \/ \E s \in SessionIds, kind \in RequestKinds, d \in Datagrams :
       ReceiveBindingRequest(s, kind, d.transactionId, d.rinfo)

SpecLifetime == Init /\ [][NextLifetime]_vars

\* C24: a session's UDP socket is open exactly when the session is
\* Listening, IceConnected, DtlsConnected or SctpReady and has not closed.
C24_SocketIffListening ==
  \A s \in Created :
    sess[s].socket = "bound" <=>
      (State(sess[s]) \in FromListening /\ s \notin node.closed)

\* C25: no step changes a session's local ICE username or password, and
\* no step changes a peer ICE username, peer ICE password or peer
\* fingerprint that has been captured.
C25_CredentialsImmutable ==
  [][\A s \in Created :
       /\ sess'[s].iceUsername = sess[s].iceUsername
       /\ sess'[s].icePassword = sess[s].icePassword
       /\ sess[s].peerIceUsername # Null =>
            sess'[s].peerIceUsername = sess[s].peerIceUsername
       /\ sess[s].peerIcePassword # Null =>
            sess'[s].peerIcePassword = sess[s].peerIcePassword
       /\ sess[s].peerFingerprint # Null =>
            sess'[s].peerFingerprint = sess[s].peerFingerprint]_vars

\* C27: the timer of a session that has closed sends no Binding Request,
\* and its STUN agent sends no response.
C27_TimerBoundToLifetime ==
  (last.op \in {"tick", "bindingRequest"} /\ last.s \in node.closed) =>
    last.out = << >>

\* The inline candidates of an offer's selected media section that are
\* IPv4 (or, for `ipv4` FALSE, that are not), as appendCandidate is given
\* them.
Inline(offer, ipv4) ==
  LET parsed == Parse(offer)
      kept == SelectSeq(parsed.media[FindMedia(parsed.media)].candidates,
                        LAMBDA c : isIPv4(c.ip) = ipv4)
  IN  [ i \in 1..Len(kept) |->
          [address |-> kept[i].ip, port |-> kept[i].port,
           priority |-> kept[i].priority] ]

Range(list) == { list[i] : i \in 1..Len(list) }

\* C28: a createAnswer call with an offer whose selected section has
\* inline candidates pushes exactly its IPv4 candidates, each with its own
\* port and priority, in their order; the candidate set gains exactly
\* those, holds no non-IPv4 candidate of the offer, the unicast view does
\* not target one, and the call does not fail for them: it goes on to the
\* bind (or to the bind's error on a socket already bound).
C28_OnlyIPv4 ==
  [][\A s \in Created, offer \in LifetimeOffers :
       LifetimeCreateAnswer(s, offer) =>
         LET v4 == Inline(offer, TRUE)
             other == Inline(offer, FALSE)
         IN  /\ sess'[s].pushed = sess[s].pushed \o v4
             /\ Len(sess'[s].candidates) = Len(sess[s].candidates) + Len(v4)
             /\ Range(sess'[s].candidates) = Range(sess[s].candidates) \cup Range(v4)
             /\ Range(sess'[s].candidates) \cap Range(other) = {}
             /\ \A c \in Range(other) :
                  sess'[s].usocket.remoteAddress # c.address
             /\ sess'[s].result =
                  IF sess[s].socket = "unbound" THEN "pending"
                  ELSE "ERR_SOCKET_ALREADY_BOUND"]_vars

\* C28 witness: the offer with one IPv6 and two IPv4 candidates was
\* accepted; the set holds the two, by priority, and the view targets the
\* first.
C28_Witness ==
  \E s \in Created :
    /\ sess[s].offer = "mixed"
    /\ sess[s].stun
    /\ sess[s].candidates =
         << [address |-> "10.0.0.5", port |-> 5000, priority |-> 70],
            [address |-> "1.1.1.1", port |-> 1000, priority |-> 50] >>
    /\ sess[s].usocket.remoteAddress = "10.0.0.5"
    /\ sess[s].usocket.remotePort = 5000

\* ------------------------------------------- signalling: `candidate`

\* The bodies of the `candidate` requests: one candidate, under the peer
\* ufrag of an offer with an inline candidate, of an offer without, under
\* a ufrag no offer has, and with username null.
CandidateBodies ==
  { [ip |-> "2.2.2.2", port |-> 2000, priority |-> 100, username |-> username] :
      username \in {"Pa", "Pc", "Px", Null} }

\* The `offer` requests of these runs: every offer, and one body of
\* another type.
OfferBodies ==
  { body \in Bodies : body.type = "offer" \/ (body.type = "answer" /\ body.sdp = "inline") }

\* Mutated lookup: the last session of that ufrag.
FindSessionLast(registry, S, username) ==
  LET hits == { i \in 1..Len(registry) : S[registry[i]].peerIceUsername = username }
  IN  IF hits = {} THEN 0
      ELSE registry[CHOOSE i \in hits : \A j \in hits : i >= j]

\* nodertc[_sessions].find(item => item[_peerIceUsername] === username):
\* the first session of the registry whose peer ufrag is `username`, 0 for
\* undefined.
FindSession(registry, S, username) ==
  LET hits == { i \in 1..Len(registry) : S[registry[i]].peerIceUsername = username }
  IN  IF hits = {} THEN 0
      ELSE registry[CHOOSE i \in hits : \A j \in hits : i <= j]

\* handleCandidate(nodertc, req, res): the session found is given the
\* candidate and emits `candidate`; res.send() in every case.  The request
\* is logged with the session found, the sessions `candidate` was emitted
\* on and the (empty) response.
HandleCandidate(body) ==
  /\ ~crashed
  /\ Len(http) < MaxRequests
  /\ LET session == FindSession(sessions, sess, body.username)
     IN  /\ sess' = IF session # 0
                      THEN [sess EXCEPT ![session] =
                              AppendCandidate(@, body.ip, body.port, body.priority)]
                      ELSE sess
         /\ http' = Append(http, [type |-> "candidate", sdp |-> Null,
                                   session |-> session,
                                   emitted |-> IF session # 0 THEN <<session>> ELSE << >>,
                                   response |-> << "" >>])
  /\ last' = Other
  /\ UNCHANGED <<sessions, crashed, calls, endpoint, sdpArgs, sdpOut>>

NextCandidate ==
  \/ \E body \in OfferBodies : HandleOffer(body)
  \/ \E s \in 1..MaxRequests : BindComplete(s)
  \/ \E body \in CandidateBodies : HandleCandidate(body)

SpecCandidate == Init /\ [][NextCandidate]_vars

\* C21: a `candidate` request whose username is the peer ufrag of a
\* registered session appends the candidate to that session (the first
\* such session of the registry), which emits `candidate`, and leaves
\* every other session as it was; a request that matches no session
\* leaves every session as it was; both are answered with an empty
\* acknowledgement, and the registry is untouched.
C21_Candidate ==
  [][\A body \in CandidateBodies :
       HandleCandidate(body) =>
         LET hits == { i \in 1..Len(sessions) :
                         sess[sessions[i]].peerIceUsername = body.username }
             entry == http'[Len(http')]
             value == [address |-> body.ip, port |-> body.port,
                       priority |-> body.priority]
         IN  /\ Len(http') = Len(http) + 1
             /\ entry.response = << "" >>
             /\ ~crashed'
             /\ sessions' = sessions
             /\ IF hits = {}
                  THEN /\ sess' = sess
                       /\ entry.emitted = << >>
                  ELSE \E i \in hits :
                         /\ \A j \in hits : i <= j
                         /\ entry.emitted = << sessions[i] >>
                         /\ sess'[sessions[i]].pushed =
                              Append(sess[sessions[i]].pushed, value)
                         /\ Range(sess'[sessions[i]].candidates) =
                              Range(sess[sessions[i]].candidates) \cup {value}
                         /\ sess'[sessions[i]].usocket.exists
                         /\ sess'[sessions[i]].usocket.remoteAddress =
                              PrimaryAddress(sess'[sessions[i]].candidates)
                         /\ \A t \in Created \ {sessions[i]} : sess'[t] = sess[t]]_vars

\* C21 witness: two registered sessions have the same peer ufrag, a
\* `candidate` request under it has been acknowledged, and the first of
\* the two has the candidate while the second has not.
C21_Witness ==
  \E r \in 1..Len(http), s \in Created, t \in Created :
    /\ http[r].type = "candidate"
    /\ http[r].session = s
    /\ http[r].response = << "" >>
    /\ s < t
    /\ sess[s].peerIceUsername = sess[t].peerIceUsername
    /\ \E i \in 1..Len(sess[s].candidates) : sess[s].candidates[i].address = "2.2.2.2"
    /\ \A i \in 1..Len(sess[t].candidates) : sess[t].candidates[i].address # "2.2.2.2"

\* ------------------------------------------------- SCTP streams

StreamIds == 0..(MaxStreams - 1)

\* Mutated mirror: the outbound stream is always stream 0.
OutboundIdZero(sctpStreamIn) == 0

\* socket.createStream(sctpStreamIn.stream_id): the id of the outbound
\* stream.
OutboundId(sctpStreamIn) == sctpStreamIn.stream_id

\* createChannel({input, output, negotiated: true}) and
\* channel.once('open', ...): the streams by their ids, the listener armed.
CreateChannel(input, output) ==
  [input |-> input.stream_id, output |-> output, negotiated |-> TRUE,
   onceOpen |-> TRUE]

\* The socket's `stream` handler.
Stream(S, sctpStreamIn) ==
  LET sctpStreamOut == OutboundId(sctpStreamIn)
  IN  [S EXCEPT !.sctpSocket.streamsIn = @ \cup {sctpStreamIn.stream_id},
                !.sctpSocket.streamsOut = Append(@, sctpStreamOut),
                !.sctpSocket.channels =
                   Append(@, CreateChannel(sctpStreamIn, sctpStreamOut))]

\* The c-th channel's `open` event: the once-listener, if still there,
\* is removed and emits `channel` with the channel.
Open(S, c) ==
  IF S.sctpSocket.channels[c].onceOpen
    THEN [S EXCEPT !.sctpSocket.channels[c].onceOpen = FALSE,
                   !.channel = Append(@, [input |-> S.sctpSocket.channels[c].input,
                                          output |-> S.sctpSocket.channels[c].output,
                                          negotiated |-> S.sctpSocket.channels[c].negotiated])]
    ELSE S

\* The SCTP server's `connection` event: the peer's association over the
\* DTLS socket, which the server accepts once it listens and the DTLS
\* handshake has ended.
SctpConnection(s) ==
  /\ ~crashed
  /\ s \in Created
  /\ sess[s].dtls = "connected"
  /\ sess[s].sctp = "listening"
  /\ ~sess[s].sctpSocket.connected
  /\ sess' = [sess EXCEPT ![s].sctpSocket.connected = TRUE]
  /\ last' = Other
  /\ UNCHANGED <<sessions, crashed, calls, endpoint, aux>>

\* The connection's `stream` event, once for each stream id the peer
\* opens.
SctpStream(s, id) ==
  /\ ~crashed
  /\ s \in Created
  /\ sess[s].sctpSocket.connected
  /\ id \notin sess[s].sctpSocket.streamsIn
  /\ sess' = [sess EXCEPT ![s] = Stream(@, [stream_id |-> id])]
  /\ last' = Other
  /\ UNCHANGED <<sessions, crashed, calls, endpoint, aux>>

\* A channel's `open` event; nothing keeps the channel from firing it
\* again.
ChannelOpen(s, c) ==
  /\ ~crashed
  /\ s \in Created
  /\ c \in 1..Len(sess[s].sctpSocket.channels)
  /\ sess' = [sess EXCEPT ![s] = Open(@, c)]
  /\ last' = Other
  /\ UNCHANGED <<sessions, crashed, calls, endpoint, aux>>

\* A session from its offer to its channels.
NextSctp ==
  \/ CreateSession
  \/ \E s \in SessionIds : CreateAnswerCall(s, "inline")
  \/ \E s \in SessionIds : BindComplete(s)
  \/ \E s \in SessionIds : Tick(s)
  \/ \E s \in SessionIds, transactionId \in {"own", "forged"} :
       ReceiveBindingResponse(s, transactionId)
  \/ \E s \in SessionIds, certificate \in Certificates : DtlsHandshake(s, certificate)
  \/ \E s \in SessionIds : SctpListening(s)
  \/ \E s \in SessionIds : SctpConnection(s)
  \/ \E s \in SessionIds, id \in StreamIds : SctpStream(s, id)
  \/ \E s \in SessionIds, c \in 1..MaxStreams : ChannelOpen(s, c)

SpecSctp == Init /\ [][NextSctp]_vars

\* How often x is in the list.
Count(list, x) == Cardinality({ i \in 1..Len(list) : list[i] = x })

\* C22: in every session, each incoming stream has exactly one outbound
\* stream of its id and there is no other outbound stream; the pair is
\* wrapped in exactly one DataChannel, negotiated; `channel` has been
\* emitted at most once for each channel, only for channels of incoming
\* streams, and only in a session that is SctpReady.
C22_Streams ==
  \A s \in Created :
    LET socket == sess[s].sctpSocket
        wrapped(id) == [input |-> id, output |-> id, negotiated |-> TRUE]
    IN  /\ \A id \in socket.streamsIn :
             /\ Count(socket.streamsOut, id) = 1
             /\ Cardinality({ c \in 1..Len(socket.channels) :
                                socket.channels[c].input = id }) = 1
             /\ \A c \in 1..Len(socket.channels) :
                  socket.channels[c].input = id =>
                    /\ socket.channels[c].output = id
                    /\ socket.channels[c].negotiated
             /\ Count(sess[s].channel, wrapped(id)) <= 1
        /\ Len(socket.streamsOut) = Cardinality(socket.streamsIn)
        /\ Len(socket.channels) = Cardinality(socket.streamsIn)
        /\ \A e \in 1..Len(sess[s].channel) :
             /\ sess[s].channel[e].input \in socket.streamsIn
             /\ sess[s].channel[e] = wrapped(sess[s].channel[e].input)
        /\ (sess[s].channel # << >> \/ socket.streamsOut # << >>) =>
             State(sess[s]) = "SctpReady"

\* C22 witness: two streams of different ids came in on an SctpReady
\* session and both channels have opened and been announced.
C22_Witness ==
  \E s \in Created :
    /\ Cardinality(sess[s].sctpSocket.streamsIn) = 2
    /\ Len(sess[s].channel) = 2
    /\ sess[s].channel[1].input # sess[s].channel[2].input
    /\ \A c \in 1..2 : ~sess[s].sctpSocket.channels[c].onceOpen
    /\ State(sess[s]) = "SctpReady"

\* ------------------------------------- signalling: failed offers

\* The sessions whose createAnswer has rejected.
Rejected == { s \in Created : sess[s].result \notin {Null, "pending", "answer"} }

\* C32: a session whose createAnswer rejected is not on the registry (so
\* `size` does not count it) and no `candidate` request has found it.
C32_RejectedNotRegistered ==
  \A s \in Rejected :
    /\ IndexOf(sessions, s) = 0
    /\ Size <= Len(sess) - Cardinality(Rejected)
    /\ \A r \in 1..Len(http) :
         http[r].type = "candidate" => http[r].session # s

\* C33: every `candidate` request that appended its candidate appended it
\* to exactly one session, one whose peer ufrag has been captured (Offered
\* or later) and whose createAnswer has not rejected.
C33_OnlyOffered ==
  \A r \in 1..Len(http) :
    (http[r].type = "candidate" /\ http[r].session # 0) =>
      /\ Len(http[r].emitted) = 1
      /\ sess[http[r].session].peerIceUsername # Null
      /\ State(sess[http[r].session]) # "New"
      /\ http[r].session \notin Rejected

\* ------------------------------------- the signalling facade's Session

\* The offers sent to the facade: one whose first media section is
\* 'DTLS/SCTP', one whose first section has another protocol string.
FacadeOffers == {"legacy", "inline"}

\* The `candidate` bodies sent to the facade: under the ufrag of the
\* "legacy" offer and under one no offer has.
FacadeCandidateBodies ==
  { [ip |-> "2.2.2.2", port |-> 2000, priority |-> 100, username |-> username] :
      username \in {"Pd", "Px"} }

\* Session.createAnswer(offer) of the facade up to `await this.listen()`:
\* the first media section is taken and must be 'DTLS/SCTP'; peer
\* credentials and fingerprint are the section's; no inline candidate is
\* read.
FacadeCreateAnswer(S, offer) ==
  LET parsed == Parse(offer)
      S1 == [S EXCEPT !.offer = offer]
      mediadata == parsed.media[1]
  IN  IF Len(parsed.media) = 0 THEN [S1 EXCEPT !.result = "Invalid SDP"]
      ELSE IF mediadata.protocol # "DTLS/SCTP"
        THEN [S1 EXCEPT !.result = "Invalid protocol"]
      ELSE [S1 EXCEPT !.peerIceUsername = mediadata.iceUfrag,
                      !.peerIcePassword = mediadata.icePwd,
                      !.peerFingerprint = mediadata.fingerprint,
                      !.socket = "binding", !.result = "pending"]

\* Session.listen() of the facade once the bind has completed: startSTUN(),
\* then this.once('candidate', () => this.startDTLS()).
FacadeListen(S) ==
  [StartSTUN([S EXCEPT !.socket = "bound"]) EXCEPT !.onceCandidate = TRUE]

\* Session.startDTLS() of the facade: dtls.connect over the unicast view.
FacadeStartDTLS(S) ==
  [S EXCEPT !.dtls = "handshake",
            !.dtlsSocket = IF S.usocket.exists THEN S.usocket.id ELSE 0]

\* session.emit('candidate', body): the once-listener, when armed, is
\* removed and runs startDTLS(); with no listener the event is dropped.
EmitCandidate(S) ==
  IF S.onceCandidate THEN [FacadeStartDTLS(S) EXCEPT !.onceCandidate = FALSE]
  ELSE S

\* handleOffer over the facade's Session, up to its await.
FacadeHandleOffer(body) ==
  /\ ~crashed
  /\ Len(http) < MaxRequests
  /\ IF ~TypeIsOffer(body.type)
       THEN /\ http' = Append(http, [type |-> body.type, sdp |-> body.sdp,
                                      session |-> 0, response |-> << >>])
            /\ crashed' \in BOOLEAN
            /\ UNCHANGED <<sessions, sess, calls, endpoint>>
       ELSE LET n == Len(sess) + 1
                S == FacadeCreateAnswer(NewSession(n), body.sdp)
            IN  /\ sess' = Append(sess, S)
                /\ options' = Append(options, [external |-> node.publicIp,
                                                internal |-> node.internalIp])
                /\ answers' = Append(answers, << >>)
                /\ sessions' = Append(sessions, n)
                /\ node' = [node EXCEPT !.emitted = @ + 1,
                                         !.closeListeners = @ \cup {n}]
                /\ calls' = calls + 1
                /\ http' = Append(http, [type |-> body.type, sdp |-> body.sdp,
                                          session |-> n, response |-> << >>])
                /\ IF S.result = "pending"
                     THEN crashed' = FALSE
                     ELSE crashed' \in BOOLEAN
  /\ last' = Other
  /\ UNCHANGED <<sdpArgs, sdpOut>>

\* The bind callback of the facade's Session and the continuations it
\* resumes: listen() starts STUN and arms the once('candidate') listener,
\* createAnswer() writes an answer without candidate lines and resolves,
\* handleOffer sends its response.
FacadeBindComplete(s) ==
  /\ ~crashed
  /\ s \in Created
  /\ sess[s].socket = "binding"
  /\ sess' = [sess EXCEPT ![s] =
                [FacadeListen(@) EXCEPT !.answer = "answer", !.result = "answer"]]
  /\ http' = Respond(http, s, "answer")
  /\ last' = Other
  /\ UNCHANGED <<sessions, crashed, calls, endpoint, sdpArgs, sdpOut>>

\* handleCandidate over the facade's Session: the session found is given
\* the candidate and emits `candidate`, which its listener may be waiting
\* for.
FacadeHandleCandidate(body) ==
  /\ ~crashed
  /\ Len(http) < MaxRequests
  /\ LET session == FindSession(sessions, sess, body.username)
     IN  /\ sess' = IF session # 0
                      THEN [sess EXCEPT ![session] =
                              EmitCandidate(AppendCandidate(@, body.ip, body.port,
                                                            body.priority))]
                      ELSE sess
         /\ http' = Append(http, [type |-> "candidate", sdp |-> Null,
                                   session |-> session,
                                   emitted |-> IF session # 0 THEN <<session>> ELSE << >>,
                                   response |-> << "" >>])
  /\ last' = Other
  /\ UNCHANGED <<sessions, crashed, calls, endpoint, sdpArgs, sdpOut>>

NextFacade ==
  \/ \E type \in {"offer", "answer"}, offer \in FacadeOffers :
       FacadeHandleOffer([type |-> type, sdp |-> offer])
  \/ \E s \in 1..MaxRequests : FacadeBindComplete(s)
  \/ \E body \in FacadeCandidateBodies : FacadeHandleCandidate(body)

SpecFacade == Init /\ [][NextFacade]_vars

\* A bind under way completes; requests come when the peer sends them.
FairSpecFacade ==
  SpecFacade /\ WF_vars(\E s \in 1..MaxRequests : FacadeBindComplete(s))

\* C31: while the process runs, a session that has been given a trickled
\* candidate and whose createAnswer has completed starts its DTLS client
\* in the end, also when the candidate came while the socket was binding.
C31_CandidateStartsDtls ==
  \A s \in 1..MaxRequests :
    (s \in Created /\ ~crashed /\ Len(sess[s].pushed) > 0 /\ sess[s].answer # Null)
      ~> (crashed \/ (s \in Created /\ sess[s].dtls # Null))

====
